---- MODULE Spec2Model ----
(***************************************************************************)
(* The chat side of the "AI modal" backend: the in-memory session store of  *)
(* ChatHandler (backend/chat_handler.py), the PDF fetch/extract pipeline of *)
(* PDFProcessor (backend/pdf_processor.py) and the four chat endpoints of   *)
(* backend/app.py.                                                          *)
(*                                                                          *)
(* Every endpoint is an `async def` that never awaits: the event loop runs  *)
(* one handler from its first line to its return before it starts another, *)
(* so each handler is one atomic action.                                    *)
(*                                                                          *)
(* Text (messages, model output, document text) is a sequence of one-       *)
(* character strings, so that strip(), slicing and joining are computed.    *)
(* Python's None is the empty tuple and a present value v is <<v>>.         *)
(* The datetime.now() stamps (created_at, last_updated, a message's         *)
(* timestamp) are written and never read by the code; they are left out.    *)
(***************************************************************************)
EXTENDS Integers, Sequences, FiniteSets, TLC

VARIABLES sessions, last

vars == <<sessions, last>>

-----------------------------------------------------------------------------
(* Bounds of the exploration and constants of the program *)

\* cap on the number of messages stored over all sessions
MaxMessages == 4

\* longest history a session starts with in SpecPrompt
PromptMaxPrior == 15

\* session.pdf_context[:10000]
PdfContextChars == 10000

\* get_conversation_context(max_messages=10)
HistoryWindow == 10

-----------------------------------------------------------------------------
(* Values *)

None == <<>>
Some(v) == <<v>>
IsNone(o) == o = <<>>
Get(o) == o[1]

Min(a, b) == IF a < b THEN a ELSE b
Max(a, b) == IF a > b THEN a ELSE b

SessionIds == {"s1", "s2"}

UserMessages == { <<"h", "i">> }

Whitespace == {" ", "\n"}

\* a URL, split where the code looks at it: url.startswith(...), url.endswith('.pdf')
UrlA == [scheme |-> "https://", name |-> "host/alpha", ext |-> ".pdf"]
UrlB == [scheme |-> "http://", name |-> "host/beta", ext |-> ""]
UrlFtp == [scheme |-> "ftp://", name |-> "host/gamma", ext |-> ".pdf"]
Urls == {UrlA, UrlB, UrlFtp}

TextAlpha == <<"A", "l">>
TextBeta == <<"B">>

-----------------------------------------------------------------------------
(* str methods *)

RECURSIVE lstrip(_)
lstrip(s) ==
    IF s = <<>> THEN <<>>
    ELSE IF Head(s) \in Whitespace THEN lstrip(Tail(s)) ELSE s

RECURSIVE rstrip(_)
rstrip(s) ==
    IF s = <<>> THEN <<>>
    ELSE IF s[Len(s)] \in Whitespace THEN rstrip(SubSeq(s, 1, Len(s) - 1)) ELSE s

strip(s) == rstrip(lstrip(s))

\* sep.join(parts)
RECURSIVE join(_, _)
join(sep, parts) ==
    IF parts = <<>> THEN <<>>
    ELSE IF Len(parts) = 1 THEN parts[1]
    ELSE parts[1] \o sep \o join(sep, Tail(parts))

\* s[:n]
Prefix(s, n) == SubSeq(s, 1, Min(Len(s), n))

\* s[-n:]
Suffix(s, n) == SubSeq(s, Max(1, Len(s) - n + 1), Len(s))

upper(role) == IF role = "user" THEN "USER" ELSE "ASSISTANT"

-----------------------------------------------------------------------------
(* Results of calls that may raise *)

Return(v) == [ok |-> TRUE, value |-> v]
Raise(type, msg) == [ok |-> FALSE, exc |-> type, msg |-> msg]

\* isinstance(e, ValueError): requests' HTTPError and ConnectionError derive
\* from RequestException (an OSError), not from ValueError
IsValueError(type) == type = "ValueError"

-----------------------------------------------------------------------------
(* PDFProcessor: what the network and the PDF library answer is an input *)

BaseScenario ==
    [head |-> "ok", get |-> "ok", contentTypePdf |-> TRUE,
     bodyTooLarge |-> FALSE, readable |-> TRUE, pages |-> <<TextAlpha>>]

FetchScenarios ==
    { BaseScenario,
      [BaseScenario EXCEPT !.pages = <<TextBeta, <<>>, <<"b">> >>],
      [BaseScenario EXCEPT !.head = "tooLarge"],
      [BaseScenario EXCEPT !.head = "error"],
      [BaseScenario EXCEPT !.get = "httpError"],
      [BaseScenario EXCEPT !.get = "transportError"],
      [BaseScenario EXCEPT !.contentTypePdf = FALSE],
      [BaseScenario EXCEPT !.bodyTooLarge = TRUE],
      [BaseScenario EXCEPT !.readable = FALSE],
      [BaseScenario EXCEPT !.pages = <<>>],
      [BaseScenario EXCEPT !.pages = << <<" ">>, <<>> >>] }

download_pdf(url, env) ==
    IF url.scheme \notin {"http://", "https://"}
    THEN Raise("ValueError", "Invalid URL")
    ELSE IF env.head = "tooLarge"
    THEN Raise("ValueError", "PDF file too large")
    ELSE IF env.get = "transportError"
    THEN Raise("ConnectionError", "connection failed")
    ELSE IF env.get = "httpError"
    THEN Raise("HTTPError", "404 Client Error")
    ELSE IF ~env.contentTypePdf /\ url.ext # ".pdf"
    THEN Raise("ValueError", "URL does not point to a PDF file")
    ELSE IF env.bodyTooLarge
    THEN Raise("ValueError", "PDF file too large")
    ELSE Return([readable |-> env.readable, pages |-> env.pages])

\* the pages whose extract_text() is truthy, in order
RECURSIVE text_content(_)
text_content(pages) ==
    IF pages = <<>> THEN <<>>
    ELSE IF Head(pages) # <<>>
         THEN <<Head(pages)>> \o text_content(Tail(pages))
         ELSE text_content(Tail(pages))

extract_text(pdf) ==
    LET full_text == join(<<"\n", "\n">>, text_content(pdf.pages)) IN
    IF ~pdf.readable
    THEN Raise("ValueError", "Failed to extract text from PDF")
    ELSE IF Len(pdf.pages) = 0
    THEN Raise("ValueError", "Failed to extract text from PDF")
    ELSE IF strip(full_text) = <<>>
    THEN Raise("ValueError", "Failed to extract text from PDF")
    ELSE Return(full_text)

process_pdf_url(url, env) ==
    LET pdf_path == download_pdf(url, env) IN
    IF ~pdf_path.ok THEN pdf_path ELSE extract_text(pdf_path.value)

-----------------------------------------------------------------------------
(* ChatSession *)

ChatSession(session_id) ==
    [session_id |-> session_id, messages |-> <<>>,
     pdf_context |-> None, pdf_url |-> None]

\* add_message, inserting at the front instead of appending
add_message_front(session, role, content) ==
    [session EXCEPT !.messages = <<[role |-> role, content |-> content]>> \o @]

add_message(session, role, content) ==
    [session EXCEPT !.messages = Append(@, [role |-> role, content |-> content])]

\* set_pdf_context, keeping the text of a session that already has one
set_pdf_context_keeps_text(session, pdf_url, pdf_text) ==
    IF IsNone(session.pdf_context)
    THEN [session EXCEPT !.pdf_url = Some(pdf_url), !.pdf_context = Some(pdf_text)]
    ELSE [session EXCEPT !.pdf_url = Some(pdf_url)]

set_pdf_context(session, pdf_url, pdf_text) ==
    [session EXCEPT !.pdf_url = Some(pdf_url), !.pdf_context = Some(pdf_text)]

\* get_conversation_context, slicing messages[:max_messages]
get_conversation_context_oldest(session, max_messages) ==
    LET recent_messages == Prefix(session.messages, max_messages) IN
    [i \in 1..Len(recent_messages) |->
        <<upper(recent_messages[i].role), recent_messages[i].content>>]

\* the lines that "\n".join(...) joins, one <<ROLE, content>> per message
get_conversation_context(session, max_messages) ==
    LET recent_messages == Suffix(session.messages, max_messages) IN
    [i \in 1..Len(recent_messages) |->
        <<upper(recent_messages[i].role), recent_messages[i].content>>]

-----------------------------------------------------------------------------
(* ChatHandler: `store` is self.sessions, a dict from session id to session *)

create_session(store, session_id) ==
    [x \in DOMAIN store \cup {session_id} |->
        IF x = session_id THEN ChatSession(session_id) ELSE store[x]]

get_session(store, session_id) ==
    IF session_id \in DOMAIN store THEN Some(store[session_id]) ELSE None

\* get_or_create_session, creating a session whether or not one is stored
get_or_create_session_always_new(store, session_id) ==
    create_session(store, session_id)

\* the dict after the call; the session returned is store'[session_id]
get_or_create_session(store, session_id) ==
    IF session_id \notin DOMAIN store
    THEN create_session(store, session_id)
    ELSE store

\* _build_prompt, embedding the whole pdf_context
build_prompt_untruncated(session, current_message, use_pdf_context) ==
    LET system == << [part |-> "system"] >>
        document ==
            IF use_pdf_context /\ ~IsNone(session.pdf_context)
                               /\ Get(session.pdf_context) # <<>>
            THEN << [part |-> "document", url |-> session.pdf_url,
                     content |-> Get(session.pdf_context)] >>
            ELSE <<>>
        recent_context == get_conversation_context(session, HistoryWindow)
        history ==
            IF Len(session.messages) > 1 /\ recent_context # <<>>
            THEN << [part |-> "history", lines |-> recent_context] >>
            ELSE <<>>
        current == << [part |-> "user", content |-> current_message] >>
    IN system \o document \o history \o current

\* _build_prompt, testing len(session.messages) > 0
build_prompt_history_from_first(session, current_message, use_pdf_context) ==
    LET system == << [part |-> "system"] >>
        document ==
            IF use_pdf_context /\ ~IsNone(session.pdf_context)
                               /\ Get(session.pdf_context) # <<>>
            THEN << [part |-> "document", url |-> session.pdf_url,
                     content |-> Prefix(Get(session.pdf_context), PdfContextChars)] >>
            ELSE <<>>
        recent_context == get_conversation_context(session, HistoryWindow)
        history ==
            IF Len(session.messages) > 0 /\ recent_context # <<>>
            THEN << [part |-> "history", lines |-> recent_context] >>
            ELSE <<>>
        current == << [part |-> "user", content |-> current_message] >>
    IN system \o document \o history \o current

\* the parts of the prompt, in the order they are joined
build_prompt(session, current_message, use_pdf_context) ==
    LET system == << [part |-> "system"] >>
        document ==
            IF use_pdf_context /\ ~IsNone(session.pdf_context)
                               /\ Get(session.pdf_context) # <<>>
            THEN << [part |-> "document", url |-> session.pdf_url,
                     content |-> Prefix(Get(session.pdf_context), PdfContextChars)] >>
            ELSE <<>>
        recent_context == get_conversation_context(session, HistoryWindow)
        history ==
            IF Len(session.messages) > 1 /\ recent_context # <<>>
            THEN << [part |-> "history", lines |-> recent_context] >>
            ELSE <<>>
        current == << [part |-> "user", content |-> current_message] >>
    IN system \o document \o history \o current

ModelOutcomes ==
    { [ok |-> TRUE, response |-> <<" ", "o", "k", "\n">>],
      [ok |-> FALSE, error |-> "model unavailable"] }

FallbackMessage == "Sorry, I encountered an error processing your message."

\* chat, with the reply returned but never appended to the history
chat_reply_not_recorded(store, session_id, user_message, use_pdf_context, gen) ==
    LET store1 == get_or_create_session(store, session_id)
        session1 == add_message(store1[session_id], "user", user_message)
        prompt == build_prompt(session1, user_message, use_pdf_context)
    IN IF gen.ok
       THEN [sessions |-> [store1 EXCEPT ![session_id] = session1],
             prompt |-> prompt,
             ret |-> [success |-> TRUE,
                      message |-> strip(gen.response),
                      session_id |-> session_id,
                      has_pdf_context |-> ~IsNone(session1.pdf_context),
                      pdf_url |-> session1.pdf_url,
                      conversation_length |-> Len(session1.messages)]]
       ELSE [sessions |-> [store1 EXCEPT ![session_id] = session1],
             prompt |-> prompt,
             ret |-> [success |-> FALSE, error |-> gen.error,
                      message |-> FallbackMessage, session_id |-> session_id]]

\* chat, with the user message taken back when the model call raises
chat_rollback_on_error(store, session_id, user_message, use_pdf_context, gen) ==
    LET store1 == get_or_create_session(store, session_id)
        session1 == add_message(store1[session_id], "user", user_message)
        prompt == build_prompt(session1, user_message, use_pdf_context)
        session2 == add_message(session1, "assistant", strip(gen.response))
    IN IF gen.ok
       THEN [sessions |-> [store1 EXCEPT ![session_id] = session2],
             prompt |-> prompt,
             ret |-> [success |-> TRUE,
                      message |-> strip(gen.response),
                      session_id |-> session_id,
                      has_pdf_context |-> ~IsNone(session2.pdf_context),
                      pdf_url |-> session2.pdf_url,
                      conversation_length |-> Len(session2.messages)]]
       ELSE [sessions |-> store1,
             prompt |-> prompt,
             ret |-> [success |-> FALSE, error |-> gen.error,
                      message |-> FallbackMessage, session_id |-> session_id]]

\* chat, calling create_session where the code calls get_or_create_session
chat_creates_session(store, session_id, user_message, use_pdf_context, gen) ==
    LET store1 == create_session(store, session_id)
        session1 == add_message(store1[session_id], "user", user_message)
        prompt == build_prompt(session1, user_message, use_pdf_context)
        session2 == add_message(session1, "assistant", strip(gen.response))
    IN IF gen.ok
       THEN [sessions |-> [store1 EXCEPT ![session_id] = session2],
             prompt |-> prompt,
             ret |-> [success |-> TRUE,
                      message |-> strip(gen.response),
                      session_id |-> session_id,
                      has_pdf_context |-> ~IsNone(session2.pdf_context),
                      pdf_url |-> session2.pdf_url,
                      conversation_length |-> Len(session2.messages)]]
       ELSE [sessions |-> [store1 EXCEPT ![session_id] = session1],
             prompt |-> prompt,
             ret |-> [success |-> FALSE, error |-> gen.error,
                      message |-> FallbackMessage, session_id |-> session_id]]

\* chat, recording the user message after the reply instead of before the call
chat_reply_before_user(store, session_id, user_message, use_pdf_context, gen) ==
    LET store1 == get_or_create_session(store, session_id)
        session1 == add_message(store1[session_id], "user", user_message)
        prompt == build_prompt(session1, user_message, use_pdf_context)
        session2 == add_message(
                        add_message(store1[session_id], "assistant",
                                    strip(gen.response)),
                        "user", user_message)
    IN IF gen.ok
       THEN [sessions |-> [store1 EXCEPT ![session_id] = session2],
             prompt |-> prompt,
             ret |-> [success |-> TRUE,
                      message |-> strip(gen.response),
                      session_id |-> session_id,
                      has_pdf_context |-> ~IsNone(session2.pdf_context),
                      pdf_url |-> session2.pdf_url,
                      conversation_length |-> Len(session2.messages)]]
       ELSE [sessions |-> [store1 EXCEPT ![session_id] = session1],
             prompt |-> prompt,
             ret |-> [success |-> FALSE, error |-> gen.error,
                      message |-> FallbackMessage, session_id |-> session_id]]

\* self.sessions after the call, what the call returns, and the prompt it sent
chat(store, session_id, user_message, use_pdf_context, gen) ==
    LET store1 == get_or_create_session(store, session_id)
        session1 == add_message(store1[session_id], "user", user_message)
        prompt == build_prompt(session1, user_message, use_pdf_context)
        ai_message == strip(gen.response)
        session2 == add_message(session1, "assistant", ai_message)
    IN IF gen.ok
       THEN [sessions |-> [store1 EXCEPT ![session_id] = session2],
             prompt |-> prompt,
             ret |-> [success |-> TRUE,
                      message |-> ai_message,
                      session_id |-> session_id,
                      has_pdf_context |-> ~IsNone(session2.pdf_context),
                      pdf_url |-> session2.pdf_url,
                      conversation_length |-> Len(session2.messages)]]
       ELSE [sessions |-> [store1 EXCEPT ![session_id] = session1],
             prompt |-> prompt,
             ret |-> [success |-> FALSE,
                      error |-> gen.error,
                      message |-> FallbackMessage,
                      session_id |-> session_id]]

\* clear_session, emptying the history of the stored session instead of
\* deleting the session
clear_session_messages_only(store, session_id) ==
    IF session_id \in DOMAIN store
    THEN [sessions |-> [store EXCEPT ![session_id].messages = <<>>],
          ret |-> TRUE]
    ELSE [sessions |-> store, ret |-> FALSE]

\* clear_session, answering True also when nothing was stored
clear_session_always_true(store, session_id) ==
    [sessions |-> [x \in DOMAIN store \ {session_id} |-> store[x]],
     ret |-> TRUE]

\* clear_session, emptying the whole dict
clear_session_all(store, session_id) ==
    IF session_id \in DOMAIN store
    THEN [sessions |-> [x \in {} |-> store[x]], ret |-> TRUE]
    ELSE [sessions |-> store, ret |-> FALSE]

clear_session(store, session_id) ==
    IF session_id \in DOMAIN store
    THEN [sessions |-> [x \in DOMAIN store \ {session_id} |-> store[x]],
          ret |-> TRUE]
    ELSE [sessions |-> store, ret |-> FALSE]

\* get_session_history, testing the history for truth instead of the session
get_session_history_falsy_empty(store, session_id) ==
    LET session == get_session(store, session_id) IN
    IF ~IsNone(session) /\ Get(session).messages # <<>>
    THEN Some(Get(session).messages)
    ELSE None

\* a ChatSession defines neither __bool__ nor __len__: `if session:` is
\* `session is not None`
get_session_history(store, session_id) ==
    LET session == get_session(store, session_id) IN
    IF ~IsNone(session) THEN Some(Get(session).messages) ELSE None

-----------------------------------------------------------------------------
(* The endpoints of app.py: the dict after the request and the response *)

\* `fetch` is what process_pdf_url answered and `generate` what the model
\* answered, None when the request did not call them
Response(store, status, body, fetch, generate, prompt) ==
    [sessions |-> store, status |-> status, ret |-> body,
     fetch |-> fetch, generate |-> generate, prompt |-> prompt]

\* POST /api/chat
api_chat(store, request, gen) ==
    LET result == chat(store, request.session_id, request.message, TRUE, gen) IN
    Response(result.sessions, 200, result.ret, None, Some(gen), Some(result.prompt))

\* the except clauses of chat_with_pdf
pdf_error_response(store, e) ==
    IF IsValueError(e.exc)
    THEN Response(store, 400,
                  [success |-> FALSE, error |-> e.msg,
                   error_type |-> "PDFProcessingError"], Some(e), None, None)
    ELSE Response(store, 500,
                  [success |-> FALSE, error |-> "Chat processing failed",
                   details |-> e.msg], Some(e), None, None)

\* chat_with_pdf, loading the document on every request
chat_with_pdf_always_loads(store, request, env, gen) ==
    LET store1 == get_or_create_session(store, request.session_id)
        session == store1[request.session_id]
        loaded == process_pdf_url(request.pdf_url, env)
        store2 == [store1 EXCEPT ![request.session_id] =
                      set_pdf_context(session, request.pdf_url, loaded.value)]
        result == chat(store2, request.session_id, request.message, TRUE, gen)
    IN IF ~loaded.ok
       THEN pdf_error_response(store1, loaded)
       ELSE Response(result.sessions, 200, result.ret, Some(loaded),
                     Some(gen), Some(result.prompt))

\* chat_with_pdf, recording the URL on the session before the document is loaded
chat_with_pdf_url_first(store, request, env, gen) ==
    LET store1 == get_or_create_session(store, request.session_id)
        session == store1[request.session_id]
        load == session.pdf_url # Some(request.pdf_url)
        loaded == process_pdf_url(request.pdf_url, env)
        marked == [store1 EXCEPT ![request.session_id].pdf_url = Some(request.pdf_url)]
        store2 ==
            IF load
            THEN [store1 EXCEPT ![request.session_id] =
                      set_pdf_context(session, request.pdf_url, loaded.value)]
            ELSE store1
        result == chat(store2, request.session_id, request.message, TRUE, gen)
    IN IF load /\ ~loaded.ok
       THEN pdf_error_response(marked, loaded)
       ELSE Response(result.sessions, 200, result.ret,
                     IF load THEN Some(loaded) ELSE None,
                     Some(gen), Some(result.prompt))

\* chat_with_pdf, dropping the old binding before the new document is loaded
chat_with_pdf_clears_binding(store, request, env, gen) ==
    LET store1 == get_or_create_session(store, request.session_id)
        session == store1[request.session_id]
        load == session.pdf_url # Some(request.pdf_url)
        loaded == process_pdf_url(request.pdf_url, env)
        dropped == [store1 EXCEPT ![request.session_id].pdf_url = None,
                                  ![request.session_id].pdf_context = None]
        store2 ==
            IF load
            THEN [store1 EXCEPT ![request.session_id] =
                      set_pdf_context(session, request.pdf_url, loaded.value)]
            ELSE store1
        result == chat(store2, request.session_id, request.message, TRUE, gen)
    IN IF load /\ ~loaded.ok
       THEN pdf_error_response(dropped, loaded)
       ELSE Response(result.sessions, 200, result.ret,
                     IF load THEN Some(loaded) ELSE None,
                     Some(gen), Some(result.prompt))

\* chat_with_pdf, binding the document after the chat instead of before it
chat_with_pdf_binds_after_chat(store, request, env, gen) ==
    LET store1 == get_or_create_session(store, request.session_id)
        load == store1[request.session_id].pdf_url # Some(request.pdf_url)
        loaded == process_pdf_url(request.pdf_url, env)
        result == chat(store1, request.session_id, request.message, TRUE, gen)
        store2 ==
            IF load
            THEN [result.sessions EXCEPT ![request.session_id] =
                      set_pdf_context(@, request.pdf_url, loaded.value)]
            ELSE result.sessions
    IN IF load /\ ~loaded.ok
       THEN pdf_error_response(store1, loaded)
       ELSE Response(store2, 200, result.ret,
                     IF load THEN Some(loaded) ELSE None,
                     Some(gen), Some(result.prompt))

\* POST /api/chat/pdf
chat_with_pdf(store, request, env, gen) ==
    LET store1 == get_or_create_session(store, request.session_id)
        session == store1[request.session_id]
        load == session.pdf_url # Some(request.pdf_url)
        loaded == process_pdf_url(request.pdf_url, env)
        store2 ==
            IF load
            THEN [store1 EXCEPT ![request.session_id] =
                      set_pdf_context(session, request.pdf_url, loaded.value)]
            ELSE store1
        result == chat(store2, request.session_id, request.message, TRUE, gen)
    IN IF load /\ ~loaded.ok
       THEN pdf_error_response(store1, loaded)
       ELSE Response(result.sessions, 200, result.ret,
                     IF load THEN Some(loaded) ELSE None,
                     Some(gen), Some(result.prompt))

\* GET /api/chat/history/{session_id}
get_chat_history(store, session_id) ==
    LET history == get_session_history(store, session_id) IN
    IF IsNone(history)
    THEN Response(store, 200,
                  [success |-> FALSE, error |-> "Session not found",
                   session_id |-> session_id], None, None, None)
    ELSE Response(store, 200,
                  [success |-> TRUE, session_id |-> session_id,
                   messages |-> Get(history),
                   message_count |-> Len(Get(history))], None, None, None)

\* DELETE /api/chat/session/{session_id}
clear_chat_session(store, session_id) ==
    LET cleared == clear_session(store, session_id) IN
    Response(cleared.sessions, 200,
             [success |-> cleared.ret, session_id |-> session_id,
              message |-> IF cleared.ret THEN "Session cleared"
                                         ELSE "Session not found"],
             None, None, None)

-----------------------------------------------------------------------------
(* The state machine *)

RECURSIVE CountMessages(_, _)
CountMessages(store, ids) ==
    IF ids = {} THEN 0
    ELSE LET id == CHOOSE x \in ids : TRUE IN
         Len(store[id].messages) + CountMessages(store, ids \ {id})

TotalMessages(store) == CountMessages(store, DOMAIN store)

Call(op, session_id, pdf_url, message, r) ==
    [op |-> op, session_id |-> session_id, pdf_url |-> pdf_url,
     message |-> message, fetch |-> r.fetch, generate |-> r.generate,
     prompt |-> r.prompt, status |-> r.status, ret |-> r.ret]

Init ==
    /\ sessions = [x \in {} |-> ChatSession(x)]
    /\ last = [op |-> "start", session_id |-> "", pdf_url |-> None,
               message |-> None, fetch |-> None, generate |-> None,
               prompt |-> None, status |-> 200, ret |-> [success |-> TRUE]]

Chat(id, msg) ==
    \E gen \in ModelOutcomes :
        LET r == api_chat(sessions, [session_id |-> id, message |-> msg], gen) IN
        /\ TotalMessages(r.sessions) <= MaxMessages
        /\ sessions' = r.sessions
        /\ last' = Call("chat", id, None, Some(msg), r)

\* the answers of the network a request reads: none when nothing is loaded
FetchInputs(request) ==
    IF /\ request.session_id \in DOMAIN sessions
       /\ sessions[request.session_id].pdf_url = Some(request.pdf_url)
    THEN {BaseScenario}
    ELSE FetchScenarios

\* the answers of the model a request reads: none when the load raised
ModelInputs(request, env) ==
    IF chat_with_pdf(sessions, request, env, CHOOSE g \in ModelOutcomes : g.ok).status = 200
    THEN ModelOutcomes
    ELSE {CHOOSE g \in ModelOutcomes : g.ok}

ChatWithPdf(id, url, msg) ==
    LET request == [session_id |-> id, pdf_url |-> url, message |-> msg] IN
    \E env \in FetchInputs(request) :
        \E gen \in ModelInputs(request, env) :
            LET r == chat_with_pdf(sessions, request, env, gen) IN
            /\ TotalMessages(r.sessions) <= MaxMessages
            /\ sessions' = r.sessions
            /\ last' = Call("chat_with_pdf", id, Some(url), Some(msg), r)

GetChatHistory(id) ==
    LET r == get_chat_history(sessions, id) IN
    /\ sessions' = r.sessions
    /\ last' = Call("get_chat_history", id, None, None, r)

ClearChatSession(id) ==
    LET r == clear_chat_session(sessions, id) IN
    /\ sessions' = r.sessions
    /\ last' = Call("clear_chat_session", id, None, None, r)

\* a direct call of ChatHandler.get_or_create_session; it returns the session
GetOrCreateSession(id) ==
    LET store1 == get_or_create_session(sessions, id) IN
    /\ sessions' = store1
    /\ last' = Call("get_or_create_session", id, None, None,
                    Response(store1, 200, store1[id], None, None, None))

Next ==
    \/ \E id \in SessionIds, msg \in UserMessages : Chat(id, msg)
    \/ \E id \in SessionIds, url \in Urls, msg \in UserMessages :
           ChatWithPdf(id, url, msg)
    \/ \E id \in SessionIds : GetChatHistory(id)
    \/ \E id \in SessionIds : ClearChatSession(id)
    \/ \E id \in SessionIds : GetOrCreateSession(id)

Spec == Init /\ [][Next]_vars

-----------------------------------------------------------------------------
(* Prompt assembly on long histories and long documents.  SpecPrompt starts  *)
(* from a store the program can have built over many requests: no session, *)
(* or session "s1" holding L earlier messages and bound to UrlA with a      *)
(* document of a length around the 10000-character cut.  One request is     *)
(* handled, and after a chat_with_pdf one more chat.                        *)

\* the i-th earlier message says "x" i times
PriorContent(i) == [k \in 1..i |-> "x"]

PriorMessages(L) ==
    [i \in 1..L |-> [role |-> IF i % 2 = 1 THEN "user" ELSE "assistant",
                     content |-> PriorContent(i)]]

\* an extracted text of n characters, "abab..."
LongText(n) == [i \in 1..n |-> IF i % 2 = 1 THEN "a" ELSE "b"]

DocLengths == {2, PdfContextChars - 1, PdfContextChars, PdfContextChars + 1}

PromptInit ==
    /\ last = [op |-> "start", session_id |-> "", pdf_url |-> None,
               message |-> None, fetch |-> None, generate |-> None,
               prompt |-> None, status |-> 200, ret |-> [success |-> TRUE]]
    /\ \/ sessions = [x \in {} |-> ChatSession(x)]
       \/ \E L \in 1..PromptMaxPrior, n \in DocLengths :
              sessions = [x \in {"s1"} |->
                  [session_id |-> "s1", messages |-> PriorMessages(L),
                   pdf_context |-> Some(LongText(n)), pdf_url |-> Some(UrlA)]]

PromptChat(msg) ==
    /\ last.op \in {"start", "chat_with_pdf"}
    /\ \E gen \in ModelOutcomes :
        LET r == api_chat(sessions, [session_id |-> "s1", message |-> msg], gen) IN
        /\ sessions' = r.sessions
        /\ last' = Call("chat", "s1", None, Some(msg), r)

PromptChatWithPdf(url, msg) ==
    /\ last.op = "start"
    /\ LET request == [session_id |-> "s1", pdf_url |-> url, message |-> msg] IN
       \E env \in FetchInputs(request) :
           \E gen \in ModelInputs(request, env) :
               LET r == chat_with_pdf(sessions, request, env, gen) IN
               /\ sessions' = r.sessions
               /\ last' = Call("chat_with_pdf", "s1", Some(url), Some(msg), r)

PromptNext ==
    \/ \E msg \in UserMessages : PromptChat(msg)
    \/ \E url \in {UrlA, UrlB}, msg \in UserMessages : PromptChatWithPdf(url, msg)

SpecPrompt == PromptInit /\ [][PromptNext]_vars

-----------------------------------------------------------------------------
(* What the properties below read *)

ChatOps == {"chat", "chat_with_pdf"}

\* the session a call on `id` starts from: the stored one, or a new one
SessionBefore(id) ==
    IF id \in DOMAIN sessions THEN sessions[id] ELSE ChatSession(id)

IsPrefix(s, t) == Len(s) <= Len(t) /\ SubSeq(t, 1, Len(s)) = s

\* the last request reached the model and the model answered
ModelSucceeded(call) == ~IsNone(call.generate) /\ Get(call.generate).ok

\* the last request reached the model and the model call raised
ModelFailed(call) == ~IsNone(call.generate) /\ ~Get(call.generate).ok

\* the last request called process_pdf_url and it raised
FetchFailed(call) == ~IsNone(call.fetch) /\ ~Get(call.fetch).ok

\* the parts of one kind in a prompt
Parts(prompt, kind) == SelectSeq(prompt, LAMBDA p : p.part = kind)

\* the history the session held when the prompt of the last request was built:
\* the stored one, less the reply that was appended afterwards
AssemblyMessages(call) ==
    LET m == sessions[call.session_id].messages IN
    IF ModelSucceeded(call) THEN SubSeq(m, 1, Len(m) - 1) ELSE m

-----------------------------------------------------------------------------
\* C1: a chat call whose model call succeeds, on a session with N prior
\* messages, leaves the N messages as they were, followed by the new user
\* message and then the assistant reply, and returns conversation_length N+2.
C1_SuccessfulChatAppendsTwo ==
    [][ (last'.op \in ChatOps /\ ModelSucceeded(last')) =>
          LET id == last'.session_id
              prior == SessionBefore(id).messages
              N == Len(prior)
              now == sessions'[id].messages
          IN /\ Len(now) = N + 2
             /\ SubSeq(now, 1, N) = prior
             /\ now[N + 1] = [role |-> "user", content |-> Get(last'.message)]
             /\ now[N + 2] = [role |-> "assistant", content |-> last'.ret.message]
             /\ last'.status = 200
             /\ last'.ret.success
             /\ last'.ret.conversation_length = N + 2 ]_vars

\* a successful chat on a session that already held a full exchange
C1_Witness ==
    /\ last.op = "chat"
    /\ ModelSucceeded(last)
    /\ last.ret.conversation_length = 4
    /\ Len(sessions[last.session_id].messages) = 4

\* C2: when the model call of a chat fails, the history grows by exactly the
\* user message, and the call returns (status 200) success = FALSE with a
\* non-empty fallback message.
C2_ModelFailureKeepsUserMessage ==
    [][ (last'.op \in ChatOps /\ ModelFailed(last')) =>
          LET id == last'.session_id
              prior == SessionBefore(id).messages
              now == sessions'[id].messages
          IN /\ now = Append(prior, [role |-> "user",
                                      content |-> Get(last'.message)])
             /\ last'.status = 200
             /\ last'.ret.success = FALSE
             /\ last'.ret.message = FallbackMessage
             /\ last'.ret.message # "" ]_vars

\* a failed model call on a session that already held an exchange
C2_Witness ==
    /\ last.op \in ChatOps
    /\ ModelFailed(last)
    /\ Len(sessions[last.session_id].messages) = 3
    /\ sessions[last.session_id].messages[3].role = "user"

\* C3: chat_with_pdf calls the fetch exactly when the requested URL differs
\* from the session's pdf_url (a session without a URL always differs); a
\* request that does not fetch leaves pdf_context and pdf_url as they were,
\* and one whose fetch returns a text binds that text and the requested URL.
C3_FetchIffSourceDiffers ==
    [][ last'.op = "chat_with_pdf" =>
          LET id == last'.session_id
              url == Get(last'.pdf_url)
              before == SessionBefore(id)
              after == sessions'[id]
          IN /\ ~IsNone(last'.fetch) <=> before.pdf_url # Some(url)
             /\ IsNone(last'.fetch) =>
                    /\ after.pdf_context = before.pdf_context
                    /\ after.pdf_url = before.pdf_url
             /\ (~IsNone(last'.fetch) /\ Get(last'.fetch).ok) =>
                    /\ after.pdf_context = Some(Get(last'.fetch).value)
                    /\ after.pdf_url = Some(url) ]_vars

\* a request that names the URL the session is already bound to
C3_Witness ==
    /\ last.op = "chat_with_pdf"
    /\ IsNone(last.fetch)
    /\ sessions[last.session_id].pdf_url = last.pdf_url
    /\ Len(sessions[last.session_id].messages) >= 3

\* C4: get_or_create_session returns, for an id that is not stored, a session
\* with an empty history and no document, and stores it; for a stored id it
\* returns the stored session with everything accumulated so far and leaves
\* the store as it was.
C4_GetOrCreateKeepsState ==
    [][ last'.op = "get_or_create_session" =>
          LET id == last'.session_id IN
          /\ id \in DOMAIN sessions'
          /\ last'.ret = sessions'[id]
          /\ id \notin DOMAIN sessions =>
                 /\ last'.ret.messages = <<>>
                 /\ IsNone(last'.ret.pdf_context)
                 /\ IsNone(last'.ret.pdf_url)
          /\ id \in DOMAIN sessions =>
                 /\ last'.ret = sessions[id]
                 /\ sessions' = sessions ]_vars

\* a call that returned a session holding messages and a document
C4_Witness ==
    /\ last.op = "get_or_create_session"
    /\ Len(last.ret.messages) >= 2
    /\ ~IsNone(last.ret.pdf_context)

\* C5: from every reachable store and for every id, clearing the session and
\* then calling get_or_create_session on the same id gives a session with an
\* empty history and no document.
C5_ClearThenGetOrCreateIsFresh ==
    \A id \in SessionIds :
        LET cleared == clear_chat_session(sessions, id).sessions
            fresh == get_or_create_session(cleared, id)[id]
        IN /\ fresh.messages = <<>>
           /\ IsNone(fresh.pdf_context)
           /\ IsNone(fresh.pdf_url)

\* a store in which the session to clear holds messages and a document
C5_Witness ==
    \E id \in DOMAIN sessions :
        /\ Len(sessions[id].messages) >= 2
        /\ ~IsNone(sessions[id].pdf_context)
        /\ ~IsNone(sessions[id].pdf_url)
        /\ clear_chat_session(sessions, id).ret.success

\* C6: get_chat_history leaves the store as it was; for an id that is not
\* stored it answers "Session not found" and stores nothing, and for a stored
\* session it answers success with the session's messages, the empty history
\* included.
C6_HistoryIsReadOnly ==
    [][ last'.op = "get_chat_history" =>
          LET id == last'.session_id IN
          /\ sessions' = sessions
          /\ id \notin DOMAIN sessions =>
                 /\ last'.ret.success = FALSE
                 /\ last'.ret.error = "Session not found"
          /\ id \in DOMAIN sessions =>
                 /\ last'.ret.success = TRUE
                 /\ last'.ret.messages = sessions[id].messages
                 /\ last'.ret.message_count = Len(sessions[id].messages) ]_vars

\* the history of a stored session without messages was asked for
C6_Witness ==
    /\ last.op = "get_chat_history"
    /\ last.session_id \in DOMAIN sessions
    /\ sessions[last.session_id].messages = <<>>
    /\ last.ret.success
    /\ last.ret.message_count = 0

\* C7: clear_chat_session answers success exactly when a session was stored
\* under the id, removes it and leaves the other sessions alone; a clear that
\* directly follows a clear of the same id answers FALSE and changes nothing.
C7_ClearReportsExistence ==
    [][ last'.op = "clear_chat_session" =>
          LET id == last'.session_id IN
          /\ last'.ret.success <=> id \in DOMAIN sessions
          /\ DOMAIN sessions' = DOMAIN sessions \ {id}
          /\ \A x \in DOMAIN sessions' : sessions'[x] = sessions[x]
          /\ (last.op = "clear_chat_session" /\ last.session_id = id) =>
                 /\ last'.ret.success = FALSE
                 /\ sessions' = sessions ]_vars

\* a clear that found nothing to remove, with another session still stored
C7_Witness ==
    /\ last.op = "clear_chat_session"
    /\ last.ret.success = FALSE
    /\ last.session_id \notin DOMAIN sessions
    /\ sessions # << >>

\* C8: whenever process_pdf_url raises in chat_with_pdf, the response is the
\* PDF error (status 400, error_type "PDFProcessingError") and not the
\* generic "Chat processing failed".
C8_FetchFailureIsDistinctKind ==
    (last.op = "chat_with_pdf" /\ FetchFailed(last)) =>
        /\ last.status = 400
        /\ last.ret.error # "Chat processing failed"

\* C9: in every session of every reachable store, pdf_context and pdf_url
\* are both set or both None.
C9_ContextAndSourceTogether ==
    \A id \in DOMAIN sessions :
        IsNone(sessions[id].pdf_context) <=> IsNone(sessions[id].pdf_url)

\* a failed load for a session that is bound to another document
C9_Witness ==
    /\ last.op = "chat_with_pdf"
    /\ FetchFailed(last)
    /\ ~IsNone(sessions[last.session_id].pdf_url)
    /\ sessions[last.session_id].pdf_url # last.pdf_url

\* C10: in every step, a session that stays stored keeps its former history
\* as a prefix of its new one, and a session leaves the store only through a
\* clear of its id.
C10_HistoryIsAppendOnly ==
    [][ \A id \in DOMAIN sessions :
          IF id \in DOMAIN sessions'
          THEN IsPrefix(sessions[id].messages, sessions'[id].messages)
          ELSE last'.op = "clear_chat_session" /\ last'.session_id = id ]_vars

\* a third and fourth message were appended to a stored history
C10_Witness ==
    /\ last.op \in ChatOps
    /\ ModelSucceeded(last)
    /\ Len(sessions[last.session_id].messages) = 4
    /\ sessions[last.session_id].messages[1].role = "user"
    /\ sessions[last.session_id].messages[2].role = "assistant"

\* C11: no handler awaits, so two requests that are in flight together are
\* handled one after the other, in either order.  When two chat requests for
\* the same id are handled back to back and the model answers both, one
\* session is stored under the id and its history ends with the first user
\* message, the first reply, the second user message and the second reply.
C11_NoLostUpdate ==
    [][ ( /\ last.op \in ChatOps /\ ModelSucceeded(last)
          /\ last'.op \in ChatOps /\ ModelSucceeded(last')
          /\ last'.session_id = last.session_id ) =>
          LET id == last'.session_id
              now == sessions'[id].messages
              n == Len(now)
          IN /\ id \in DOMAIN sessions'
             /\ n >= 4
             /\ SubSeq(now, n - 3, n) =
                  << [role |-> "user", content |-> Get(last.message)],
                     [role |-> "assistant", content |-> last.ret.message],
                     [role |-> "user", content |-> Get(last'.message)],
                     [role |-> "assistant", content |-> last'.ret.message] >> ]_vars

\* the second of two answered chats on one id has been handled
C11_Witness ==
    /\ last.op \in ChatOps
    /\ ModelSucceeded(last)
    /\ last.session_id \in DOMAIN sessions
    /\ [i \in 1..Len(sessions[last.session_id].messages) |->
          sessions[last.session_id].messages[i].role]
         = <<"user", "assistant", "user", "assistant">>

\* C12: a Conversation History block of a prompt renders the last min(L, 10)
\* messages of the history of length L the session held when the prompt was
\* built, oldest of them first, as ROLE and content, and no older message.
C12_HistoryBlockIsLastTen ==
    ~IsNone(last.prompt) =>
        LET msgs == AssemblyMessages(last)
            L == Len(msgs)
            w == IF L < 10 THEN L ELSE 10
            blocks == Parts(Get(last.prompt), "history")
        IN \A b \in 1..Len(blocks) :
              /\ Len(blocks[b].lines) = w
              /\ \A k \in 1..w :
                    /\ blocks[b].lines[k][1] =
                         (IF msgs[L - w + k].role = "user" THEN "USER"
                                                            ELSE "ASSISTANT")
                    /\ blocks[b].lines[k][2] = msgs[L - w + k].content

\* 15 earlier messages and the new one: the block starts at the 7th
C12_Witness ==
    /\ ~IsNone(last.prompt)
    /\ Len(AssemblyMessages(last)) = 16
    /\ Len(Parts(Get(last.prompt), "history")) = 1
    /\ Len(Parts(Get(last.prompt), "history")[1].lines) = 10
    /\ Parts(Get(last.prompt), "history")[1].lines[1] = <<"USER", PriorContent(7)>>

\* C13: the prompt built for a session with a bound document has one document
\* block, and its content is the first min(len, 10000) characters of
\* pdf_context, whatever the length of the document.
C13_DocumentBlockIsTruncated ==
    (~IsNone(last.prompt) /\ ~IsNone(sessions[last.session_id].pdf_context)) =>
        LET text == Get(sessions[last.session_id].pdf_context)
            cut == IF Len(text) < 10000 THEN Len(text) ELSE 10000
            blocks == Parts(Get(last.prompt), "document")
        IN /\ Len(blocks) = 1
           /\ Len(blocks[1].content) = cut
           /\ Len(blocks[1].content) <= 10000
           /\ blocks[1].content = SubSeq(text, 1, cut)

\* a document of 10001 characters was embedded as 10000
C13_Witness ==
    /\ ~IsNone(last.prompt)
    /\ ~IsNone(sessions[last.session_id].pdf_context)
    /\ Len(Get(sessions[last.session_id].pdf_context)) = 10001
    /\ Len(Parts(Get(last.prompt), "document")) = 1
    /\ Len(Parts(Get(last.prompt), "document")[1].content) = 10000

\* In SpecPrompt a session whose first message is PriorContent(1) started
\* bound to UrlA with a LongText; bound to UrlB, it has been rebound.
ReboundToB(session) ==
    /\ session.messages # <<>>
    /\ session.messages[1].content = PriorContent(1)
    /\ session.pdf_url = Some(UrlB)

\* C14: every prompt built for a bound session has one document block, with
\* the URL and the text the session is bound to now; once a session bound to
\* UrlA has been rebound to UrlB, the block names UrlB, holds the text fetched
\* for UrlB and none of the texts that were bound under UrlA.
C14_PromptEmbedsCurrentBindingOnly ==
    (~IsNone(last.prompt) /\ ~IsNone(sessions[last.session_id].pdf_url)) =>
        LET session == sessions[last.session_id]
            blocks == Parts(Get(last.prompt), "document")
        IN /\ Len(blocks) = 1
           /\ blocks[1].url = session.pdf_url
           /\ IsPrefix(blocks[1].content, Get(session.pdf_context))
           /\ ReboundToB(session) =>
                 /\ blocks[1].url = Some(UrlB)
                 /\ blocks[1].content \in {TextAlpha, <<"B", "\n", "\n", "b">>}
                 /\ blocks[1].content # LongText(Len(blocks[1].content))

\* a plain chat after the request that rebound the session to UrlB
C14_Witness ==
    /\ last.op = "chat"
    /\ ~IsNone(last.prompt)
    /\ ReboundToB(sessions[last.session_id])
    /\ Len(Parts(Get(last.prompt), "document")) = 1
    /\ Parts(Get(last.prompt), "document")[1].url = Some(UrlB)

\* C15: when process_pdf_url raises in chat_with_pdf, the model is not
\* called, no prompt is built, and the session keeps the messages, the
\* pdf_context and the pdf_url it had before the request.
C15_FailedFetchChangesNothing ==
    [][ (last'.op = "chat_with_pdf" /\ FetchFailed(last')) =>
          LET id == last'.session_id
              before == SessionBefore(id)
              after == sessions'[id]
          IN /\ IsNone(last'.generate)
             /\ IsNone(last'.prompt)
             /\ after.messages = before.messages
             /\ after.pdf_context = before.pdf_context
             /\ after.pdf_url = before.pdf_url ]_vars

\* a failed load of another document for a session with an exchange and a
\* document
C15_Witness ==
    /\ last.op = "chat_with_pdf"
    /\ FetchFailed(last)
    /\ IsNone(last.generate)
    /\ Len(sessions[last.session_id].messages) >= 2
    /\ ~IsNone(sessions[last.session_id].pdf_context)
    /\ sessions[last.session_id].pdf_url # last.pdf_url

\* C16: a request for one session id leaves every other id as it was: stored
\* or not, and with the same messages and document.
C16_SessionsAreIndependent ==
    [][ \A x \in SessionIds \ {last'.session_id} :
          /\ x \in DOMAIN sessions' <=> x \in DOMAIN sessions
          /\ x \in DOMAIN sessions => sessions'[x] = sessions[x] ]_vars

\* a session was cleared while another one held messages and a document
C16_Witness ==
    /\ last.op = "clear_chat_session"
    /\ last.ret.success
    /\ \E x \in DOMAIN sessions :
          /\ x # last.session_id
          /\ Len(sessions[x].messages) >= 2
          /\ ~IsNone(sessions[x].pdf_url)

\* C17: a prompt has a Conversation History block exactly when the session
\* held more than one message once the new user message was appended.
C17_HistoryBlockIffMoreThanOne ==
    ~IsNone(last.prompt) =>
        LET blocks == Parts(Get(last.prompt), "history") IN
        /\ Len(blocks) <= 1
        /\ Len(blocks) = 1 <=> Len(AssemblyMessages(last)) > 1

\* the first chat on a session that did not exist: no history block
C17_Witness ==
    /\ last.op = "chat"
    /\ ~IsNone(last.prompt)
    /\ Len(AssemblyMessages(last)) = 1
    /\ Parts(Get(last.prompt), "history") = <<>>

\* C18: in every stored history each assistant message directly follows a
\* user message.
C18_AssistantFollowsUser ==
    \A id \in DOMAIN sessions :
        LET m == sessions[id].messages IN
        \A i \in 1..Len(m) :
            m[i].role = "assistant" => (i > 1 /\ m[i - 1].role = "user")

\* two user messages in a row, left by a failed model call, then a reply
C18_Witness ==
    \E id \in DOMAIN sessions :
        LET m == sessions[id].messages IN
        /\ Len(m) = 3
        /\ m[1].role = "user" /\ m[2].role = "user" /\ m[3].role = "assistant"

\* C19: when chat_with_pdf answers success, the session stored under the id
\* is bound to the requested URL, with the text just fetched if the request
\* fetched, and the answer reports has_pdf_context and the requested URL.
\* Requests in flight together are handled one after the other, so none runs
\* between the load, the chat and the return.
C19_SuccessMeansBound ==
    (last.op = "chat_with_pdf" /\ last.status = 200 /\ last.ret.success) =>
        /\ last.session_id \in DOMAIN sessions
        /\ sessions[last.session_id].pdf_url = last.pdf_url
        /\ ~IsNone(sessions[last.session_id].pdf_context)
        /\ ~IsNone(last.fetch) =>
              sessions[last.session_id].pdf_context = Some(Get(last.fetch).value)
        /\ last.ret.has_pdf_context = TRUE
        /\ last.ret.pdf_url = last.pdf_url

\* an answered request that rebound a session with earlier messages to UrlB
C19_Witness ==
    /\ last.op = "chat_with_pdf"
    /\ last.ret.success
    /\ ~IsNone(last.fetch)
    /\ last.pdf_url = Some(UrlB)
    /\ Len(sessions[last.session_id].messages) = 4
    /\ last.ret.has_pdf_context

====
